---- MODULE Spec2Model ----
(***************************************************************************)
(* Model of videosys/pipelines/open_sora/data_process.py: the resolution   *)
(* tables and their lookup (get_image_size), the aspect-ratio matcher      *)
(* (get_closest_ratio), the fill-crop geometry (resize_crop_to_fill) and   *)
(* the centre-crop policy (get_transforms_video / get_transforms_image /   *)
(* UCFCenterCropVideo).                                                    *)
(*                                                                         *)
(* The functions are pure; a behaviour is one call: the state is the       *)
(* call a client makes, its arguments and what it returned or raised.      *)
(*                                                                         *)
(* Python floats are IEEE-754 binary64.  They are modelled exactly: a      *)
(* non-negative double is a fixed-point number of NDigits digits in base   *)
(* 2^DigitBits (least significant digit first) with FracDigits fractional  *)
(* digits, and every float operation rounds its exact result to MantBits   *)
(* significant bits, ties to even.                                         *)
(***************************************************************************)
EXTENDS Integers, Sequences, FiniteSets, TLC

\* op, args: the call; pc: "call" before it is made, "done" after;
\* ret: what it returned or raised.
VARIABLES op, args, pc, ret

vars == <<op, args, pc, ret>>

---------------------------------------------------------------------------
(* IEEE-754 binary64 arithmetic on non-negative values                     *)

\* Significant bits of a binary64 mantissa.
MantBits == 53

\* The fixed-point frame: digits of DigitBits bits, FracDigits of them
\* below the binary point, NDigits in all.
DigitBits == 13

FracDigits == 6

NDigits == 8

Base == 2 ^ DigitBits

FracBits == DigitBits * FracDigits

Digits == 1 .. NDigits

BigZero == [i \in Digits |-> 0]

\* The integer n (0 <= n < Base^2) as a fixed-point number.
FromInt(n) ==
    [i \in Digits |->
        IF i = FracDigits + 1 THEN n % Base
        ELSE IF i = FracDigits + 2 THEN n \div Base
        ELSE 0]

\* The integer part of a fixed-point number.
IntPart(x) == x[FracDigits + 2] * Base + x[FracDigits + 1]

\* Whether the fractional part of x is zero.
FracIsZero(x) == \A i \in 1 .. FracDigits : x[i] = 0

\* a < b, digit by digit from the most significant one.
BigLess(a, b) ==
    \E i \in Digits : a[i] < b[i] /\ \A j \in (i + 1) .. NDigits : a[j] = b[j]

RECURSIVE AddFrom(_, _, _, _)
AddFrom(a, b, i, carry) ==
    IF i > NDigits THEN <<>>
    ELSE LET s == a[i] + b[i] + carry
         IN  <<s % Base>> \o AddFrom(a, b, i + 1, s \div Base)

BigAdd(a, b) == AddFrom(a, b, 1, 0)

RECURSIVE SubFrom(_, _, _, _)
SubFrom(a, b, i, borrow) ==
    IF i > NDigits THEN <<>>
    ELSE LET s == a[i] - b[i] - borrow
         IN  IF s < 0 THEN <<s + Base>> \o SubFrom(a, b, i + 1, 1)
             ELSE <<s>> \o SubFrom(a, b, i + 1, 0)

\* a - b for a >= b.
BigSub(a, b) == SubFrom(a, b, 1, 0)

RECURSIVE MulFrom(_, _, _, _)
MulFrom(x, n, i, carry) ==
    IF i > NDigits THEN <<>>
    ELSE LET p == x[i] * n + carry
         IN  <<p % Base>> \o MulFrom(x, n, i + 1, p \div Base)

\* x * n for an integer 0 <= n < Base.
BigMulSmall(x, n) == MulFrom(x, n, 1, 0)

\* The number of bits of the digit d > 0.
BitLen(d) == CHOOSE j \in 1 .. DigitBits : 2 ^ (j - 1) <= d /\ d < 2 ^ j

\* Index (from 0, the least significant bit of the frame) of the leading
\* one of x # 0.
LeadingBit(x) ==
    LET top == CHOOSE i \in Digits :
                   x[i] # 0 /\ \A j \in (i + 1) .. NDigits : x[j] = 0
    IN  DigitBits * (top - 1) + BitLen(x[top]) - 1

\* The bits of x below bit q.
LowPart(x, q) ==
    [i \in Digits |->
        IF DigitBits * i <= q THEN x[i]
        ELSE IF DigitBits * (i - 1) >= q THEN 0
        ELSE x[i] % (2 ^ (q - DigitBits * (i - 1)))]

\* 2^q as a number of the frame.
Pow2Big(q) ==
    [i \in Digits |->
        IF DigitBits * (i - 1) <= q /\ q < DigitBits * i
        THEN 2 ^ (q - DigitBits * (i - 1))
        ELSE 0]

BitAt(x, q) == (x[(q \div DigitBits) + 1] \div (2 ^ (q % DigitBits))) % 2

\* The double nearest to x + (a positive amount below the frame's last bit,
\* when sticky): round to nearest, ties to even.
RoundToDouble(x, sticky) ==
    IF x = BigZero THEN x
    ELSE LET p == LeadingBit(x)
         IN  IF p < MantBits THEN x
             ELSE LET q     == p - (MantBits - 1)
                      low   == LowPart(x, q)
                      half  == Pow2Big(q - 1)
                      trunc == BigSub(x, low)
                      up    == \/ BigLess(half, low)
                               \/ low = half /\ (sticky \/ BitAt(x, q) = 1)
                  IN  IF up THEN BigAdd(trunc, Pow2Big(q)) ELSE trunc

RECURSIVE QuotientDigits(_, _, _)
\* The next n base-Base digits of r / b (r < b), least significant first,
\* followed by the final remainder.
QuotientDigits(r, b, n) ==
    IF n = 0 THEN <<r>>
    ELSE LET d    == (r * Base) \div b
             rest == QuotientDigits((r * Base) % b, b, n - 1)
         IN  SubSeq(rest, 1, n - 1) \o <<d>> \o <<rest[n]>>

\* a / b for integers a >= 0, b > 0: float(a) / float(b).
FDiv(a, b) ==
    LET qd    == QuotientDigits(a % b, b, FracDigits)
        whole == a \div b
        x     == [i \in Digits |->
                     IF i <= FracDigits THEN qd[i]
                     ELSE IF i = FracDigits + 1 THEN whole % Base
                     ELSE whole \div Base]
    IN  RoundToDouble(x, qd[FracDigits + 1] # 0)

\* n * x for an integer n and a double x: float(n) * x.
FMul(n, x) == RoundToDouble(BigMulSmall(x, n), FALSE)

\* abs(a - b) for doubles a, b.
FAbsDiff(a, b) ==
    IF BigLess(a, b) THEN RoundToDouble(BigSub(b, a), FALSE)
    ELSE RoundToDouble(BigSub(a, b), FALSE)

\* Whether n is even.
IsEven(n) == n % 2 = 0

\* Python's round(x) for a double x >= 0: the nearest integer, ties to even.
PyRound(x) ==
    LET whole == IntPart(x)
        half  == [i \in Digits |-> IF i = FracDigits THEN Base \div 2 ELSE 0]
        frac  == [i \in Digits |-> IF i <= FracDigits THEN x[i] ELSE 0]
    IN  IF BigLess(half, frac) THEN whole + 1
        ELSE IF frac = half THEN (IF IsEven(whole) THEN whole ELSE whole + 1)
        ELSE whole

\* int(round(n / 2.0)) for an integer n >= 0: n / 2.0 is exact.
PyRoundHalf(n) ==
    IF IsEven(n) THEN n \div 2
    ELSE IF IsEven(n \div 2) THEN n \div 2 ELSE (n \div 2) + 1

\* floor(x) for a double x >= 0.
Floor(x) == IntPart(x)

---------------------------------------------------------------------------
(* The constant tables.  A Python dict is the sequence of its items in    *)
(* insertion order, which is the order min() and keys() iterate in.       *)

ASPECT_RATIO_MAP_short == <<
    <<"3:8", "0.38">>,
    <<"9:21", "0.43">>,
    <<"12:25", "0.48">>,
    <<"1:2", "0.5">>,
    <<"9:17", "0.53">>,
    <<"27:50", "0.54">>,
    <<"9:16", "0.56">>,
    <<"5:8", "0.62">>,
    <<"2:3", "0.67">>,
    <<"3:4", "0.75">>,
    <<"1:1", "1.0">>,
    <<"4:3", "1.33">>,
    <<"3:2", "1.5">>,
    <<"16:9", "1.78">>,
    <<"17:9", "1.89">>,
    <<"2:1", "2.0">>,
    <<"50:27", "2.08">>
>>

\* H:W label -> quantized ratio key.
ASPECT_RATIO_MAP == <<
    <<"3:8", "0.38">>,
    <<"9:21", "0.43">>,
    <<"12:25", "0.48">>,
    <<"1:2", "0.50">>,
    <<"9:17", "0.53">>,
    <<"27:50", "0.54">>,
    <<"9:16", "0.56">>,
    <<"5:8", "0.62">>,
    <<"2:3", "0.67">>,
    <<"3:4", "0.75">>,
    <<"1:1", "1.00">>,
    <<"4:3", "1.33">>,
    <<"3:2", "1.50">>,
    <<"16:9", "1.78">>,
    <<"17:9", "1.89">>,
    <<"2:1", "2.00">>,
    <<"50:27", "2.08">>
>>

ASPECT_RATIO_4K == <<
    <<"0.38", 1764, 4704>>,
    <<"0.43", 1886, 4400>>,
    <<"0.48", 1996, 4158>>,
    <<"0.50", 2036, 4072>>,
    <<"0.53", 2096, 3960>>,
    <<"0.54", 2118, 3918>>,
    <<"0.62", 2276, 3642>>,
    <<"0.56", 2160, 3840>>,
    <<"0.67", 2352, 3528>>,
    <<"0.75", 2494, 3326>>,
    <<"1.00", 2880, 2880>>,
    <<"1.33", 3326, 2494>>,
    <<"1.50", 3528, 2352>>,
    <<"1.78", 3840, 2160>>,
    <<"1.89", 3958, 2096>>,
    <<"2.00", 4072, 2036>>,
    <<"2.08", 4156, 1994>>
>>

ASPECT_RATIO_2K == <<
    <<"0.38", 1176, 3136>>,
    <<"0.43", 1256, 2930>>,
    <<"0.48", 1330, 2770>>,
    <<"0.50", 1358, 2716>>,
    <<"0.53", 1398, 2640>>,
    <<"0.54", 1412, 2612>>,
    <<"0.56", 1440, 2560>>,
    <<"0.62", 1518, 2428>>,
    <<"0.67", 1568, 2352>>,
    <<"0.75", 1662, 2216>>,
    <<"1.00", 1920, 1920>>,
    <<"1.33", 2218, 1664>>,
    <<"1.50", 2352, 1568>>,
    <<"1.78", 2560, 1440>>,
    <<"1.89", 2638, 1396>>,
    <<"2.00", 2716, 1358>>,
    <<"2.08", 2772, 1330>>
>>

ASPECT_RATIO_1080P == <<
    <<"0.38", 882, 2352>>,
    <<"0.43", 942, 2198>>,
    <<"0.48", 998, 2080>>,
    <<"0.50", 1018, 2036>>,
    <<"0.53", 1048, 1980>>,
    <<"0.54", 1058, 1958>>,
    <<"0.56", 1080, 1920>>,
    <<"0.62", 1138, 1820>>,
    <<"0.67", 1176, 1764>>,
    <<"0.75", 1248, 1664>>,
    <<"1.00", 1440, 1440>>,
    <<"1.33", 1662, 1246>>,
    <<"1.50", 1764, 1176>>,
    <<"1.78", 1920, 1080>>,
    <<"1.89", 1980, 1048>>,
    <<"2.00", 2036, 1018>>,
    <<"2.08", 2078, 998>>
>>

ASPECT_RATIO_720P == <<
    <<"0.38", 588, 1568>>,
    <<"0.43", 628, 1466>>,
    <<"0.48", 666, 1388>>,
    <<"0.50", 678, 1356>>,
    <<"0.53", 698, 1318>>,
    <<"0.54", 706, 1306>>,
    <<"0.56", 720, 1280>>,
    <<"0.62", 758, 1212>>,
    <<"0.67", 784, 1176>>,
    <<"0.75", 832, 1110>>,
    <<"1.00", 960, 960>>,
    <<"1.33", 1108, 832>>,
    <<"1.50", 1176, 784>>,
    <<"1.78", 1280, 720>>,
    <<"1.89", 1320, 698>>,
    <<"2.00", 1358, 680>>,
    <<"2.08", 1386, 666>>
>>

ASPECT_RATIO_480P == <<
    <<"0.38", 392, 1046>>,
    <<"0.43", 420, 980>>,
    <<"0.48", 444, 925>>,
    <<"0.50", 452, 904>>,
    <<"0.53", 466, 880>>,
    <<"0.54", 470, 870>>,
    <<"0.56", 480, 854>>,
    <<"0.62", 506, 810>>,
    <<"0.67", 522, 784>>,
    <<"0.75", 554, 738>>,
    <<"1.00", 640, 640>>,
    <<"1.33", 740, 555>>,
    <<"1.50", 784, 522>>,
    <<"1.78", 854, 480>>,
    <<"1.89", 880, 466>>,
    <<"2.00", 906, 454>>,
    <<"2.08", 924, 444>>
>>

ASPECT_RATIO_360P == <<
    <<"0.38", 294, 784>>,
    <<"0.43", 314, 732>>,
    <<"0.48", 332, 692>>,
    <<"0.50", 340, 680>>,
    <<"0.53", 350, 662>>,
    <<"0.54", 352, 652>>,
    <<"0.56", 360, 640>>,
    <<"0.62", 380, 608>>,
    <<"0.67", 392, 588>>,
    <<"0.75", 416, 554>>,
    <<"1.00", 480, 480>>,
    <<"1.33", 554, 416>>,
    <<"1.50", 588, 392>>,
    <<"1.78", 640, 360>>,
    <<"1.89", 660, 350>>,
    <<"2.00", 678, 340>>,
    <<"2.08", 692, 332>>
>>

ASPECT_RATIO_240P == <<
    <<"0.38", 196, 522>>,
    <<"0.43", 210, 490>>,
    <<"0.48", 222, 462>>,
    <<"0.50", 226, 452>>,
    <<"0.53", 232, 438>>,
    <<"0.54", 236, 436>>,
    <<"0.56", 240, 426>>,
    <<"0.62", 252, 404>>,
    <<"0.67", 262, 393>>,
    <<"0.75", 276, 368>>,
    <<"1.00", 320, 320>>,
    <<"1.33", 370, 278>>,
    <<"1.50", 392, 262>>,
    <<"1.78", 426, 240>>,
    <<"1.89", 440, 232>>,
    <<"2.00", 452, 226>>,
    <<"2.08", 462, 222>>
>>

ASPECT_RATIO_144P == <<
    <<"0.38", 117, 312>>,
    <<"0.43", 125, 291>>,
    <<"0.48", 133, 277>>,
    <<"0.50", 135, 270>>,
    <<"0.53", 139, 262>>,
    <<"0.54", 141, 260>>,
    <<"0.56", 144, 256>>,
    <<"0.62", 151, 241>>,
    <<"0.67", 156, 234>>,
    <<"0.75", 166, 221>>,
    <<"1.00", 192, 192>>,
    <<"1.33", 221, 165>>,
    <<"1.50", 235, 156>>,
    <<"1.78", 256, 144>>,
    <<"1.89", 263, 139>>,
    <<"2.00", 271, 135>>,
    <<"2.08", 277, 132>>
>>

ASPECT_RATIO_2880 == <<
    <<"0.25", 1408, 5760>>,
    <<"0.26", 1408, 5568>>,
    <<"0.27", 1408, 5376>>,
    <<"0.28", 1408, 5184>>,
    <<"0.32", 1600, 4992>>,
    <<"0.33", 1600, 4800>>,
    <<"0.34", 1600, 4672>>,
    <<"0.4", 1792, 4480>>,
    <<"0.42", 1792, 4288>>,
    <<"0.47", 1920, 4096>>,
    <<"0.49", 1920, 3904>>,
    <<"0.51", 1920, 3776>>,
    <<"0.55", 2112, 3840>>,
    <<"0.59", 2112, 3584>>,
    <<"0.68", 2304, 3392>>,
    <<"0.72", 2304, 3200>>,
    <<"0.78", 2496, 3200>>,
    <<"0.83", 2496, 3008>>,
    <<"0.89", 2688, 3008>>,
    <<"0.93", 2688, 2880>>,
    <<"1.0", 2880, 2880>>,
    <<"1.07", 2880, 2688>>,
    <<"1.12", 3008, 2688>>,
    <<"1.21", 3008, 2496>>,
    <<"1.28", 3200, 2496>>,
    <<"1.39", 3200, 2304>>,
    <<"1.47", 3392, 2304>>,
    <<"1.7", 3584, 2112>>,
    <<"1.82", 3840, 2112>>,
    <<"2.03", 3904, 1920>>,
    <<"2.13", 4096, 1920>>,
    <<"2.39", 4288, 1792>>,
    <<"2.5", 4480, 1792>>,
    <<"2.92", 4672, 1600>>,
    <<"3.0", 4800, 1600>>,
    <<"3.12", 4992, 1600>>,
    <<"3.68", 5184, 1408>>,
    <<"3.82", 5376, 1408>>,
    <<"3.95", 5568, 1408>>,
    <<"4.0", 5760, 1408>>
>>

ASPECT_RATIO_2048 == <<
    <<"0.25", 1024, 4096>>,
    <<"0.26", 1024, 3968>>,
    <<"0.27", 1024, 3840>>,
    <<"0.28", 1024, 3712>>,
    <<"0.32", 1152, 3584>>,
    <<"0.33", 1152, 3456>>,
    <<"0.35", 1152, 3328>>,
    <<"0.4", 1280, 3200>>,
    <<"0.42", 1280, 3072>>,
    <<"0.48", 1408, 2944>>,
    <<"0.5", 1408, 2816>>,
    <<"0.52", 1408, 2688>>,
    <<"0.57", 1536, 2688>>,
    <<"0.6", 1536, 2560>>,
    <<"0.68", 1664, 2432>>,
    <<"0.72", 1664, 2304>>,
    <<"0.78", 1792, 2304>>,
    <<"0.82", 1792, 2176>>,
    <<"0.88", 1920, 2176>>,
    <<"0.94", 1920, 2048>>,
    <<"1.0", 2048, 2048>>,
    <<"1.07", 2048, 1920>>,
    <<"1.13", 2176, 1920>>,
    <<"1.21", 2176, 1792>>,
    <<"1.29", 2304, 1792>>,
    <<"1.38", 2304, 1664>>,
    <<"1.46", 2432, 1664>>,
    <<"1.67", 2560, 1536>>,
    <<"1.75", 2688, 1536>>,
    <<"2.0", 2816, 1408>>,
    <<"2.09", 2944, 1408>>,
    <<"2.4", 3072, 1280>>,
    <<"2.5", 3200, 1280>>,
    <<"2.89", 3328, 1152>>,
    <<"3.0", 3456, 1152>>,
    <<"3.11", 3584, 1152>>,
    <<"3.62", 3712, 1024>>,
    <<"3.75", 3840, 1024>>,
    <<"3.88", 3968, 1024>>,
    <<"4.0", 4096, 1024>>
>>

ASPECT_RATIO_1024 == <<
    <<"0.25", 512, 2048>>,
    <<"0.26", 512, 1984>>,
    <<"0.27", 512, 1920>>,
    <<"0.28", 512, 1856>>,
    <<"0.32", 576, 1792>>,
    <<"0.33", 576, 1728>>,
    <<"0.35", 576, 1664>>,
    <<"0.4", 640, 1600>>,
    <<"0.42", 640, 1536>>,
    <<"0.48", 704, 1472>>,
    <<"0.5", 704, 1408>>,
    <<"0.52", 704, 1344>>,
    <<"0.57", 768, 1344>>,
    <<"0.6", 768, 1280>>,
    <<"0.68", 832, 1216>>,
    <<"0.72", 832, 1152>>,
    <<"0.78", 896, 1152>>,
    <<"0.82", 896, 1088>>,
    <<"0.88", 960, 1088>>,
    <<"0.94", 960, 1024>>,
    <<"1.0", 1024, 1024>>,
    <<"1.07", 1024, 960>>,
    <<"1.13", 1088, 960>>,
    <<"1.21", 1088, 896>>,
    <<"1.29", 1152, 896>>,
    <<"1.38", 1152, 832>>,
    <<"1.46", 1216, 832>>,
    <<"1.67", 1280, 768>>,
    <<"1.75", 1344, 768>>,
    <<"2.0", 1408, 704>>,
    <<"2.09", 1472, 704>>,
    <<"2.4", 1536, 640>>,
    <<"2.5", 1600, 640>>,
    <<"2.89", 1664, 576>>,
    <<"3.0", 1728, 576>>,
    <<"3.11", 1792, 576>>,
    <<"3.62", 1856, 512>>,
    <<"3.75", 1920, 512>>,
    <<"3.88", 1984, 512>>,
    <<"4.0", 2048, 512>>
>>

ASPECT_RATIO_512 == <<
    <<"0.25", 256, 1024>>,
    <<"0.26", 256, 992>>,
    <<"0.27", 256, 960>>,
    <<"0.28", 256, 928>>,
    <<"0.32", 288, 896>>,
    <<"0.33", 288, 864>>,
    <<"0.35", 288, 832>>,
    <<"0.4", 320, 800>>,
    <<"0.42", 320, 768>>,
    <<"0.48", 352, 736>>,
    <<"0.5", 352, 704>>,
    <<"0.52", 352, 672>>,
    <<"0.57", 384, 672>>,
    <<"0.6", 384, 640>>,
    <<"0.68", 416, 608>>,
    <<"0.72", 416, 576>>,
    <<"0.78", 448, 576>>,
    <<"0.82", 448, 544>>,
    <<"0.88", 480, 544>>,
    <<"0.94", 480, 512>>,
    <<"1.0", 512, 512>>,
    <<"1.07", 512, 480>>,
    <<"1.13", 544, 480>>,
    <<"1.21", 544, 448>>,
    <<"1.29", 576, 448>>,
    <<"1.38", 576, 416>>,
    <<"1.46", 608, 416>>,
    <<"1.67", 640, 384>>,
    <<"1.75", 672, 384>>,
    <<"2.0", 704, 352>>,
    <<"2.09", 736, 352>>,
    <<"2.4", 768, 320>>,
    <<"2.5", 800, 320>>,
    <<"2.89", 832, 288>>,
    <<"3.0", 864, 288>>,
    <<"3.11", 896, 288>>,
    <<"3.62", 928, 256>>,
    <<"3.75", 960, 256>>,
    <<"3.88", 992, 256>>,
    <<"4.0", 1024, 256>>
>>

ASPECT_RATIO_256 == <<
    <<"0.25", 128, 512>>,
    <<"0.26", 128, 496>>,
    <<"0.27", 128, 480>>,
    <<"0.28", 128, 464>>,
    <<"0.32", 144, 448>>,
    <<"0.33", 144, 432>>,
    <<"0.35", 144, 416>>,
    <<"0.4", 160, 400>>,
    <<"0.42", 160, 384>>,
    <<"0.48", 176, 368>>,
    <<"0.5", 176, 352>>,
    <<"0.52", 176, 336>>,
    <<"0.57", 192, 336>>,
    <<"0.6", 192, 320>>,
    <<"0.68", 208, 304>>,
    <<"0.72", 208, 288>>,
    <<"0.78", 224, 288>>,
    <<"0.82", 224, 272>>,
    <<"0.88", 240, 272>>,
    <<"0.94", 240, 256>>,
    <<"1.0", 256, 256>>,
    <<"1.07", 256, 240>>,
    <<"1.13", 272, 240>>,
    <<"1.21", 272, 224>>,
    <<"1.29", 288, 224>>,
    <<"1.38", 288, 208>>,
    <<"1.46", 304, 208>>,
    <<"1.67", 320, 192>>,
    <<"1.75", 336, 192>>,
    <<"2.0", 352, 176>>,
    <<"2.09", 368, 176>>,
    <<"2.4", 384, 160>>,
    <<"2.5", 400, 160>>,
    <<"2.89", 416, 144>>,
    <<"3.0", 432, 144>>,
    <<"3.11", 448, 144>>,
    <<"3.62", 464, 128>>,
    <<"3.75", 480, 128>>,
    <<"3.88", 496, 128>>,
    <<"4.0", 512, 128>>
>>

ASPECT_RATIOS_budget == <<
    <<"144p", 36864, ASPECT_RATIO_144P>>,
    <<"256", 65536, ASPECT_RATIO_256>>,
    <<"240p", 102240, ASPECT_RATIO_240P>>,
    <<"360p", 230400, ASPECT_RATIO_360P>>,
    <<"512", 262144, ASPECT_RATIO_512>>,
    <<"480p", 409920, ASPECT_RATIO_480P>>,
    <<"720p", 921600, ASPECT_RATIO_720P>>,
    <<"1024", 1048576, ASPECT_RATIO_1024>>,
    <<"1080p", 2073600, ASPECT_RATIO_1080P>>,
    <<"2k", 368640, ASPECT_RATIO_2K>>,
    <<"2048", 4194304, ASPECT_RATIO_2048>>,
    <<"2880", 8294400, ASPECT_RATIO_2880>>,
    <<"4k", 8294400, ASPECT_RATIO_4K>>
>>

\* tier name -> (pixel-area budget S, ratio table).
ASPECT_RATIOS == <<
    <<"144p", 36864, ASPECT_RATIO_144P>>,
    <<"256", 65536, ASPECT_RATIO_256>>,
    <<"240p", 102240, ASPECT_RATIO_240P>>,
    <<"360p", 230400, ASPECT_RATIO_360P>>,
    <<"512", 262144, ASPECT_RATIO_512>>,
    <<"480p", 409920, ASPECT_RATIO_480P>>,
    <<"720p", 921600, ASPECT_RATIO_720P>>,
    <<"1024", 1048576, ASPECT_RATIO_1024>>,
    <<"1080p", 2073600, ASPECT_RATIO_1080P>>,
    <<"2k", 3686400, ASPECT_RATIO_2K>>,
    <<"2048", 4194304, ASPECT_RATIO_2048>>,
    <<"2880", 8294400, ASPECT_RATIO_2880>>,
    <<"4k", 8294400, ASPECT_RATIO_4K>>
>>

\* The decimal literal a ratio key spells: its digits as an integer over the
\* power of ten of its fraction digits ("0.4" is 4/10, "1.00" is 100/100).
DecimalOf ==
    "0.25" :> <<25, 100>> @@ "0.26" :> <<26, 100>> @@ "0.27" :> <<27, 100>>
    @@ "0.28" :> <<28, 100>> @@ "0.32" :> <<32, 100>> @@ "0.33" :> <<33, 100>>
    @@ "0.34" :> <<34, 100>> @@ "0.35" :> <<35, 100>> @@ "0.38" :> <<38, 100>>
    @@ "0.4" :> <<4, 10>> @@ "0.42" :> <<42, 100>> @@ "0.43" :> <<43, 100>>
    @@ "0.47" :> <<47, 100>> @@ "0.48" :> <<48, 100>> @@ "0.49" :> <<49, 100>>
    @@ "0.5" :> <<5, 10>> @@ "0.50" :> <<50, 100>> @@ "0.51" :> <<51, 100>>
    @@ "0.52" :> <<52, 100>> @@ "0.53" :> <<53, 100>> @@ "0.54" :> <<54, 100>>
    @@ "0.55" :> <<55, 100>> @@ "0.56" :> <<56, 100>> @@ "0.57" :> <<57, 100>>
    @@ "0.59" :> <<59, 100>> @@ "0.6" :> <<6, 10>> @@ "0.62" :> <<62, 100>>
    @@ "0.67" :> <<67, 100>> @@ "0.68" :> <<68, 100>> @@ "0.72" :> <<72, 100>>
    @@ "0.75" :> <<75, 100>> @@ "0.78" :> <<78, 100>> @@ "0.82" :> <<82, 100>>
    @@ "0.83" :> <<83, 100>> @@ "0.88" :> <<88, 100>> @@ "0.89" :> <<89, 100>>
    @@ "0.93" :> <<93, 100>> @@ "0.94" :> <<94, 100>> @@ "1.0" :> <<10, 10>>
    @@ "1.00" :> <<100, 100>> @@ "1.07" :> <<107, 100>> @@ "1.12" :> <<112, 100>>
    @@ "1.13" :> <<113, 100>> @@ "1.21" :> <<121, 100>> @@ "1.28" :> <<128, 100>>
    @@ "1.29" :> <<129, 100>> @@ "1.33" :> <<133, 100>> @@ "1.38" :> <<138, 100>>
    @@ "1.39" :> <<139, 100>> @@ "1.46" :> <<146, 100>> @@ "1.47" :> <<147, 100>>
    @@ "1.50" :> <<150, 100>> @@ "1.67" :> <<167, 100>> @@ "1.7" :> <<17, 10>>
    @@ "1.75" :> <<175, 100>> @@ "1.78" :> <<178, 100>> @@ "1.82" :> <<182, 100>>
    @@ "1.89" :> <<189, 100>> @@ "2.0" :> <<20, 10>> @@ "2.00" :> <<200, 100>>
    @@ "2.03" :> <<203, 100>> @@ "2.08" :> <<208, 100>> @@ "2.09" :> <<209, 100>>
    @@ "2.13" :> <<213, 100>> @@ "2.39" :> <<239, 100>> @@ "2.4" :> <<24, 10>>
    @@ "2.5" :> <<25, 10>> @@ "2.89" :> <<289, 100>> @@ "2.92" :> <<292, 100>>
    @@ "3.0" :> <<30, 10>> @@ "3.11" :> <<311, 100>> @@ "3.12" :> <<312, 100>>
    @@ "3.62" :> <<362, 100>> @@ "3.68" :> <<368, 100>> @@ "3.75" :> <<375, 100>>
    @@ "3.82" :> <<382, 100>> @@ "3.88" :> <<388, 100>> @@ "3.95" :> <<395, 100>>
    @@ "4.0" :> <<40, 10>>

\* float(ratio) of every key the tables hold, correctly rounded.
FloatOfKey == [s \in DOMAIN DecimalOf |-> FDiv(DecimalOf[s][1], DecimalOf[s][2])]

float(ratio) == FloatOfKey[ratio]

---------------------------------------------------------------------------
(* Python dict and call conventions                                        *)

\* k in d
DictHas(d, k) == \E n \in 1 .. Len(d) : d[n][1] = k

\* The item of d under key k (k in d).
DictItem(d, k) == d[CHOOSE n \in 1 .. Len(d) : d[n][1] = k]

\* The outcome of a call: what it returned, or the exception it raised.
Return(v) == [exc |-> "none", value |-> v]

Raise(e) == [exc |-> e, value |-> <<>>]

---------------------------------------------------------------------------
(* get_image_size                                                          *)

get_image_size_swapped(resolution, ar_ratio) ==
    IF ~DictHas(ASPECT_RATIO_MAP, ar_ratio) \/ ~DictHas(ASPECT_RATIOS, resolution)
    THEN Raise("KeyError")
    ELSE LET ar_key  == DictItem(ASPECT_RATIO_MAP, ar_ratio)[2]
             rs_dict == DictItem(ASPECT_RATIOS, resolution)[3]
         IN  IF ~DictHas(rs_dict, ar_key) THEN Raise("AssertionError")
             ELSE Return(<<DictItem(rs_dict, ar_key)[3], DictItem(rs_dict, ar_key)[2]>>)

get_image_size(resolution, ar_ratio) ==
    IF ~DictHas(ASPECT_RATIO_MAP, ar_ratio) THEN Raise("KeyError")
    ELSE LET ar_key == DictItem(ASPECT_RATIO_MAP, ar_ratio)[2]
         IN  IF ~DictHas(ASPECT_RATIOS, resolution) THEN Raise("KeyError")
             ELSE LET rs_dict == DictItem(ASPECT_RATIOS, resolution)[3]
                  IN  IF ~DictHas(rs_dict, ar_key) THEN Raise("AssertionError")
                      ELSE Return(<<DictItem(rs_dict, ar_key)[2],
                                    DictItem(rs_dict, ar_key)[3]>>)

---------------------------------------------------------------------------
(* get_closest_ratio                                                       *)

\* Python's min(iterable, key=...), ds the keys of the items in iteration
\* order: the index of the first item whose key no other item's is below.
PyMin(ds) ==
    CHOOSE n \in 1 .. Len(ds) :
        /\ \A m \in 1 .. Len(ds) : ~BigLess(ds[m], ds[n])
        /\ \A m \in 1 .. (n - 1) : BigLess(ds[n], ds[m])

PyMinLast(ds) ==
    CHOOSE n \in 1 .. Len(ds) :
        /\ \A m \in 1 .. Len(ds) : ~BigLess(ds[m], ds[n])
        /\ \A m \in (n + 1) .. Len(ds) : BigLess(ds[n], ds[m])

RECURSIVE RatioDistances(_, _, _)
\* abs(float(ratio) - aspect_ratio) for the keys n .. Len(ratios), in order.
RatioDistances(aspect_ratio, ratios, n) ==
    IF n > Len(ratios) THEN <<>>
    ELSE <<FAbsDiff(float(ratios[n][1]), aspect_ratio)>>
             \o RatioDistances(aspect_ratio, ratios, n + 1)

get_closest_ratio_last(height, width, ratios) ==
    LET aspect_ratio == FDiv(height, width)
    IN  ratios[PyMinLast(RatioDistances(aspect_ratio, ratios, 1))][1]

get_closest_ratio(height, width, ratios) ==
    LET aspect_ratio == FDiv(height, width)
    IN  ratios[PyMin(RatioDistances(aspect_ratio, ratios, 1))][1]

---------------------------------------------------------------------------
(* resize_crop_to_fill                                                     *)

\* int(round(n / 2.0)) for any integer n (round is symmetric about 0).
RoundHalf(n) == IF n >= 0 THEN PyRoundHalf(n) ELSE -PyRoundHalf(-n)

\* A slice bound as numpy reads it on an axis of n elements.
SliceBound(x, n) ==
    IF x < 0 THEN (IF x + n < 0 THEN 0 ELSE x + n)
    ELSE IF x > n THEN n ELSE x

\* len(range(n)[a:b])
SliceLen(a, b, n) ==
    IF SliceBound(b, n) > SliceBound(a, n)
    THEN SliceBound(b, n) - SliceBound(a, n)
    ELSE 0

\* The locals at the assertion, and what follows it.
CropResult(sh, sw, i, j, th, tw) ==
    [exc   |-> IF i + th <= sh /\ j + tw <= sw THEN "none" ELSE "AssertionError",
     sh    |-> sh, sw |-> sw, i |-> i, j |-> j,
     value |-> IF i + th <= sh /\ j + tw <= sw
               THEN <<SliceLen(i, i + th, sh), SliceLen(j, j + tw, sw)>>
               ELSE <<>>]

resize_crop_to_fill_flipped(w, h, th, tw) ==
    LET rh == FDiv(th, h)
        rw == FDiv(tw, w)
    IN  IF BigLess(rh, rw)
        THEN LET sw == PyRound(FMul(w, rh))
             IN  CropResult(th, sw, 0, RoundHalf(sw - tw), th, tw)
        ELSE LET sh == PyRound(FMul(h, rw))
             IN  CropResult(sh, tw, RoundHalf(sh - th), 0, th, tw)

resize_crop_to_fill_hw(w, h, th, tw) ==
    LET rh == FDiv(th, w)
        rw == FDiv(tw, h)
    IN  IF BigLess(rw, rh)
        THEN LET sw == PyRound(FMul(h, rh))
             IN  CropResult(th, sw, 0, RoundHalf(sw - tw), th, tw)
        ELSE LET sh == PyRound(FMul(w, rw))
             IN  CropResult(sh, tw, RoundHalf(sh - th), 0, th, tw)

resize_crop_to_fill_floor(w, h, th, tw) ==
    LET rh == FDiv(th, h)
        rw == FDiv(tw, w)
    IN  IF BigLess(rw, rh)
        THEN LET sw == PyRound(FMul(w, rh))
             IN  CropResult(th, sw, 0, (sw - tw) \div 2, th, tw)
        ELSE LET sh == PyRound(FMul(h, rw))
             IN  CropResult(sh, tw, (sh - th) \div 2, 0, th, tw)

\* pil_image.size = (w, h), image_size = (th, tw).
resize_crop_to_fill(w, h, th, tw) ==
    LET rh == FDiv(th, h)
        rw == FDiv(tw, w)
    IN  IF BigLess(rw, rh)
        THEN LET sw == PyRound(FMul(w, rh))
             IN  CropResult(th, sw, 0, RoundHalf(sw - tw), th, tw)
        ELSE LET sh == PyRound(FMul(h, rw))
             IN  CropResult(sh, tw, RoundHalf(sh - th), 0, th, tw)

---------------------------------------------------------------------------
(* The centre-crop policy                                                  *)

\* resize_scale: interpolate(clip, scale_factor = target_size[0] / min(H, W));
\* each output dimension is floor(input dimension * scale_factor).
resize_scale(H, W, target_size) ==
    LET scale_ == FDiv(target_size[1], IF H < W THEN H ELSE W)
    IN  <<Floor(FMul(H, scale_)), Floor(FMul(W, scale_))>>

\* center_crop of a clip of h x w to crop_size = (th, tw).
center_crop(h, w, crop_size) ==
    LET th == crop_size[1]
        tw == crop_size[2]
        i  == RoundHalf(h - th)
        j  == RoundHalf(w - tw)
    IN  IF h < th \/ w < tw THEN Raise("ValueError")
        ELSE Return(<<SliceLen(i, i + th, h), SliceLen(j, j + tw, w)>>)

\* UCFCenterCropVideo(size)(clip) for size = (height, width) as __init__
\* stores it (an int s is stored as (s, s)) and a clip of H x W.
UCFCenterCropVideo(size, H, W) ==
    LET clip_resize == resize_scale(H, W, size)
    IN  IF clip_resize[1] = 0 \/ clip_resize[2] = 0 THEN Raise("RuntimeError")
        ELSE center_crop(clip_resize[1], clip_resize[2], size)

\* The transform names a caller passes: None, the two known ones, another.
TransformNames == {"None", "center", "resize_crop", "random"}

get_transforms_video_unchecked(name, image_size) ==
    IF name = "None" THEN Return("None")
    ELSE IF name \in {"center", "resize_crop"} THEN Return(name)
    ELSE Raise("NotImplementedError")

get_transforms_video(name, image_size) ==
    IF name = "None" THEN Return("None")
    ELSE IF name = "center"
    THEN (IF image_size[1] = image_size[2] THEN Return("center")
          ELSE Raise("AssertionError"))
    ELSE IF name = "resize_crop" THEN Return("resize_crop")
    ELSE Raise("NotImplementedError")

get_transforms_image(name, image_size) ==
    IF name = "None" THEN Return("None")
    ELSE IF name = "center"
    THEN (IF image_size[1] = image_size[2] THEN Return("center")
          ELSE Raise("AssertionError"))
    ELSE IF name = "resize_crop" THEN Return("resize_crop")
    ELSE Raise("NotImplementedError")

---------------------------------------------------------------------------
(* get_num_frames                                                          *)

\* A token is a str: the sequence of its characters.
NUM_FRAMES_MAP ==
    << <<<<"1", "x">>, 51>>,
       <<<<"2", "x">>, 102>>,
       <<<<"4", "x">>, 204>>,
       <<<<"8", "x">>, 408>>,
       <<<<"1", "6", "x">>, 816>>,
       <<<<"2", "s">>, 51>>,
       <<<<"4", "s">>, 102>>,
       <<<<"8", "s">>, 204>>,
       <<<<"1", "6", "s">>, 408>>,
       <<<<"3", "2", "s">>, 816>> >>

\* The decimal digits and their values.
DigitValue ==
    "0" :> 0 @@ "1" :> 1 @@ "2" :> 2 @@ "3" :> 3 @@ "4" :> 4
    @@ "5" :> 5 @@ "6" :> 6 @@ "7" :> 7 @@ "8" :> 8 @@ "9" :> 9

IsDigit(c) == c \in DOMAIN DigitValue

\* Characters str.strip() removes (of those the tokens are made of).
IsSpace(c) == c = " "

\* s.strip()
Strip(s) ==
    IF \A k \in 1 .. Len(s) : IsSpace(s[k]) THEN <<>>
    ELSE LET first == CHOOSE k \in 1 .. Len(s) :
                          ~IsSpace(s[k]) /\ \A m \in 1 .. (k - 1) : IsSpace(s[m])
             last  == CHOOSE k \in 1 .. Len(s) :
                          ~IsSpace(s[k]) /\ \A m \in (k + 1) .. Len(s) : IsSpace(s[m])
         IN  SubSeq(s, first, last)

\* Whether s is what int() reads after blanks and sign: digits, with single
\* underscores between digits only.
IsDigitPart(s) ==
    /\ s # <<>>
    /\ IsDigit(s[1]) /\ IsDigit(s[Len(s)])
    /\ \A k \in 1 .. Len(s) : IsDigit(s[k]) \/ s[k] = "_"
    /\ \A k \in 1 .. (Len(s) - 1) : ~(s[k] = "_" /\ s[k + 1] = "_")

RECURSIVE DigitPartValue(_, _, _)
\* The number s[k ..] spells after acc, underscores skipped.
DigitPartValue(s, k, acc) ==
    IF k > Len(s) THEN acc
    ELSE IF s[k] = "_" THEN DigitPartValue(s, k + 1, acc)
    ELSE DigitPartValue(s, k + 1, 10 * acc + DigitValue[s[k]])

\* int(s) for a str s, base 10.
PyInt(s) ==
    LET t      == Strip(s)
        signed == t # <<>> /\ t[1] \in {"+", "-"}
        body   == IF signed THEN Tail(t) ELSE t
    IN  IF ~IsDigitPart(body) THEN Raise("ValueError")
        ELSE IF signed /\ t[1] = "-" THEN Return(-DigitPartValue(body, 1, 0))
        ELSE Return(DigitPartValue(body, 1, 0))

get_num_frames_no_table(num_frames) == PyInt(num_frames)

get_num_frames(num_frames) ==
    IF DictHas(NUM_FRAMES_MAP, num_frames)
    THEN Return(DictItem(NUM_FRAMES_MAP, num_frames)[2])
    ELSE PyInt(num_frames)

---------------------------------------------------------------------------
(* center_crop_arr                                                         *)

\* min(*pil_image.size), size = (width, height).
MinSide(size) == IF size[1] < size[2] THEN size[1] ELSE size[2]

\* The while condition.
LoopCondition(size, image_size) == MinSide(size) >= 2 * image_size

Halve_discarded(size) == size

\* tuple(x // 2 for x in pil_image.size)
Halve(size) == <<size[1] \div 2, size[2] \div 2>>

\* tuple(round(x * scale) for x in pil_image.size),
\* scale = image_size / min(*pil_image.size).
ScaledSize(size, image_size) ==
    LET scale == FDiv(image_size, MinSide(size))
    IN  <<PyRound(FMul(size[1], scale)), PyRound(FMul(size[2], scale))>>

\* The locals of center_crop_arr at the while statement: the size of
\* pil_image, nothing resized or returned yet.
ArrLocals(size) ==
    [exc |-> "pending", size |-> size, resized |-> <<>>,
     crop_y |-> 0, crop_x |-> 0, value |-> <<>>]

\* The statements after the loop, pil_image of the given size: the resize
\* (PIL refuses an empty size), the two offsets and the crop of
\* arr, whose shape is (height, width).
ResizeAndCropArr(size, image_size) ==
    LET resized == ScaledSize(size, image_size)
        crop_y  == (resized[2] - image_size) \div 2
        crop_x  == (resized[1] - image_size) \div 2
    IN  IF resized[1] <= 0 \/ resized[2] <= 0
        THEN [ArrLocals(size) EXCEPT !.exc = "ValueError"]
        ELSE [exc     |-> "none",
              size    |-> size,
              resized |-> resized,
              crop_y  |-> crop_y,
              crop_x  |-> crop_x,
              value   |-> <<SliceLen(crop_y, crop_y + image_size, resized[2]),
                            SliceLen(crop_x, crop_x + image_size, resized[1])>>]

---------------------------------------------------------------------------
(* The calls a client makes                                                *)

\* Heights probed against every table at width ProbeWidth: with
\* ProbeWidth = 100 the ratios are the hundredths, among them the midpoints
\* of neighbouring keys.
MaxProbeHeight == 70

ProbeWidth == 100

\* Source and target sides of the fill-crop calls, besides the sides of the
\* worked example (a 100 x 200 source, a 50 x 50 target).
MaxDim == 6

\* Clip sides and target sides of the centre-crop calls.
MaxClip == 8

MaxSize == 4

\* Longest token made of TokenChars that get_num_frames is called with.
MaxTokenLen == 3

\* Image sides and target sizes of the center_crop_arr calls.
MaxArrDim == 12

MaxArrSize == 3

TierNames == {ASPECT_RATIOS[n][1] : n \in 1 .. Len(ASPECT_RATIOS)}

RatioLabels == {ASPECT_RATIO_MAP[n][1] : n \in 1 .. Len(ASPECT_RATIO_MAP)}

\* The (height, width) pairs a table stores.
TablePairs(ratios) == {<<ratios[n][2], ratios[n][3]>> : n \in 1 .. Len(ratios)}

ProbePairs == {<<h, ProbeWidth>> : h \in 1 .. MaxProbeHeight}

SourceDims == (1 .. MaxDim) \cup {100, 200}

TargetDims == (1 .. MaxDim) \cup {50}

\* The calls of each function, as the client is about to make them.
SizeCalls ==
    {[resolution |-> r, ar_ratio |-> a] :
        r \in TierNames \cup {"8k"}, a \in RatioLabels \cup {"4:5"}}

RatioCalls ==
    UNION {{[tier |-> ASPECT_RATIOS[n][1], height |-> hw[1], width |-> hw[2]] :
               hw \in TablePairs(ASPECT_RATIOS[n][3]) \cup ProbePairs} :
           n \in 1 .. Len(ASPECT_RATIOS)}

FillCalls ==
    {[w |-> w, h |-> h, th |-> th, tw |-> tw] :
        w \in SourceDims, h \in SourceDims, th \in TargetDims, tw \in TargetDims}

TransformCalls ==
    {[name |-> name, image_size |-> <<th, tw>>] :
        name \in TransformNames, th \in 1 .. MaxSize, tw \in 1 .. MaxSize}

CenterCropCalls ==
    {[size |-> <<th, tw>>, H |-> H, W |-> W] :
        th \in 1 .. MaxSize, tw \in 1 .. MaxSize, H \in 1 .. MaxClip, W \in 1 .. MaxClip}

\* The characters of the generated tokens: some digits, the two unit
\* letters, and what int() reads around digits.
TokenChars == {"2", "4", "8", "s", "x", "+", "-", "_", " "}

\* The tokens: every str over TokenChars up to MaxTokenLen, every key of
\* NUM_FRAMES_MAP, and "42" and "bogus".
Tokens ==
    UNION {[1 .. n -> TokenChars] : n \in 0 .. MaxTokenLen}
        \cup {NUM_FRAMES_MAP[n][1] : n \in 1 .. Len(NUM_FRAMES_MAP)}
        \cup {<<"4", "2">>, <<"b", "o", "g", "u", "s">>}

FramesCalls == {[num_frames |-> t] : t \in Tokens}

ArrCalls ==
    {[w |-> w, h |-> h, image_size |-> s] :
        w \in 1 .. MaxArrDim, h \in 1 .. MaxArrDim, s \in 1 .. MaxArrSize}

\* Before the call returns there is no outcome.
Pending == [exc |-> "pending", value |-> <<>>]

InitSize ==
    /\ pc = "call" /\ ret = Pending
    /\ op = "get_image_size" /\ args \in SizeCalls

InitRatio ==
    /\ pc = "call" /\ ret = Pending
    /\ op = "get_closest_ratio" /\ args \in RatioCalls

InitFill ==
    /\ pc = "call" /\ ret = Pending
    /\ op = "resize_crop_to_fill" /\ args \in FillCalls

InitCenter ==
    /\ pc = "call" /\ ret = Pending
    /\ \/ op \in {"get_transforms_video", "get_transforms_image"} /\ args \in TransformCalls
       \/ op = "UCFCenterCropVideo" /\ args \in CenterCropCalls

InitFrames ==
    /\ pc = "call" /\ ret = Pending
    /\ op = "get_num_frames" /\ args \in FramesCalls

\* center_crop_arr entered: at the while statement, pil_image the argument.
InitArr ==
    /\ pc = "loop" /\ op = "center_crop_arr" /\ args \in ArrCalls
    /\ ret = ArrLocals(<<args.w, args.h>>)

Init == InitSize \/ InitRatio \/ InitFill \/ InitCenter \/ InitFrames \/ InitArr

\* get_image_size(resolution, ar_ratio), also with a tier and a label the
\* tables do not hold.
GetImageSize ==
    /\ pc = "call" /\ op = "get_image_size"
    /\ ret' = get_image_size(args.resolution, args.ar_ratio)
    /\ pc' = "done"
    /\ UNCHANGED <<op, args>>

\* get_closest_ratio(height, width, ASPECT_RATIOS[tier][1])
GetClosestRatio ==
    /\ pc = "call" /\ op = "get_closest_ratio"
    /\ ret' = Return(get_closest_ratio(args.height, args.width,
                                       DictItem(ASPECT_RATIOS, args.tier)[3]))
    /\ pc' = "done"
    /\ UNCHANGED <<op, args>>

\* resize_crop_to_fill(pil_image, image_size) on an image of w x h.
ResizeCropToFill ==
    /\ pc = "call" /\ op = "resize_crop_to_fill"
    /\ ret' = resize_crop_to_fill(args.w, args.h, args.th, args.tw)
    /\ pc' = "done"
    /\ UNCHANGED <<op, args>>

GetTransformsVideo ==
    /\ pc = "call" /\ op = "get_transforms_video"
    /\ ret' = get_transforms_video(args.name, args.image_size)
    /\ pc' = "done"
    /\ UNCHANGED <<op, args>>

GetTransformsImage ==
    /\ pc = "call" /\ op = "get_transforms_image"
    /\ ret' = get_transforms_image(args.name, args.image_size)
    /\ pc' = "done"
    /\ UNCHANGED <<op, args>>

\* UCFCenterCropVideo(size)(clip), size a (height, width) tuple or an int
\* (stored as the square tuple), clip of H x W.
CenterCropVideo ==
    /\ pc = "call" /\ op = "UCFCenterCropVideo"
    /\ ret' = UCFCenterCropVideo(args.size, args.H, args.W)
    /\ pc' = "done"
    /\ UNCHANGED <<op, args>>

\* get_num_frames(num_frames) on a str token.
GetNumFrames ==
    /\ pc = "call" /\ op = "get_num_frames"
    /\ ret' = get_num_frames(args.num_frames)
    /\ pc' = "done"
    /\ UNCHANGED <<op, args>>

\* One pass of the while loop of center_crop_arr.
HalvePass ==
    /\ pc = "loop" /\ op = "center_crop_arr"
    /\ LoopCondition(ret.size, args.image_size)
    /\ ret' = [ret EXCEPT !.size = Halve(ret.size)]
    /\ UNCHANGED <<op, args, pc>>

\* The loop's exit and the rest of center_crop_arr.
ResizeAndCrop ==
    /\ pc = "loop" /\ op = "center_crop_arr"
    /\ ~LoopCondition(ret.size, args.image_size)
    /\ ret' = ResizeAndCropArr(ret.size, args.image_size)
    /\ pc' = "done"
    /\ UNCHANGED <<op, args>>

NextSize == GetImageSize

NextRatio == GetClosestRatio

NextFill == ResizeCropToFill

NextCenter == GetTransformsVideo \/ GetTransformsImage \/ CenterCropVideo

NextFrames == GetNumFrames

NextArr == HalvePass \/ ResizeAndCrop

Next == NextSize \/ NextRatio \/ NextFill \/ NextCenter \/ NextFrames \/ NextArr

\* The table lookups.
SpecSize == InitSize /\ [][NextSize]_vars

\* The aspect-ratio matcher.
SpecRatio == InitRatio /\ [][NextRatio]_vars

\* The fill-crop geometry.
SpecFill == InitFill /\ [][NextFill]_vars

\* The centre-crop policy.
SpecCenter == InitCenter /\ [][NextCenter]_vars

\* The frame-count resolver.
SpecFrames == InitFrames /\ [][NextFrames]_vars

\* The loop of center_crop_arr is left: the step ResizeAndCrop takes when
\* the loop condition is false, as far as pc shows it.  ResizeAndCrop is
\* defined on every size, so it is enabled exactly when this is.
LeaveLoop ==
    /\ pc = "loop" /\ op = "center_crop_arr"
    /\ ~LoopCondition(ret.size, args.image_size)
    /\ pc' = "done"

\* center_crop_arr; the interpreter always executes the next statement: a
\* pass of the loop while its condition holds, the rest of the function
\* once it does not.
SpecArr ==
    InitArr /\ [][NextArr]_vars /\ WF_vars(HalvePass) /\ WF_pc(LeaveLoop)

Spec == Init /\ [][Next]_vars

---------------------------------------------------------------------------
(* Properties                                                              *)

\* The call that has returned is fn(a).
Returned(fn) == pc = "done" /\ op = fn

\* The tiers whose tables come from OpenSora and from PixArt.
OpenSoraTiers == {"144p", "240p", "360p", "480p", "720p", "1080p", "2k", "4k"}

PixArtTiers == {"256", "512", "1024", "2048", "2880"}

TierBudget(tier) == DictItem(ASPECT_RATIOS, tier)[2]

TierTable(tier) == DictItem(ASPECT_RATIOS, tier)[3]

\* C1 (as amended): get_image_size returns the (height, width) pair
\* (1280, 720) for tier "720p" with the H:W label "16:9" (and (720, 1280)
\* for "9:16"), and (1440, 1440) for tier "1080p" with label "1:1".
C1_TargetSizeExamples ==
    Returned("get_image_size") =>
        /\ args = [resolution |-> "720p", ar_ratio |-> "16:9"]
               => ret = Return(<<1280, 720>>)
        /\ args = [resolution |-> "720p", ar_ratio |-> "9:16"]
               => ret = Return(<<720, 1280>>)
        /\ args = [resolution |-> "1080p", ar_ratio |-> "1:1"]
               => ret = Return(<<1440, 1440>>)

\* C1, witness: the call get_image_size("720p", "16:9") has returned
\* (1280, 720).
C1_Witness ==
    /\ Returned("get_image_size")
    /\ args = [resolution |-> "720p", ar_ratio |-> "16:9"]
    /\ ret.exc = "none" /\ ret.value = <<1280, 720>>

\* C1 as stated: get_image_size returns (720, 1280) for "720p" with "16:9"
\* and (1440, 1440) for "1080p" with "1:1".
C1_Original ==
    Returned("get_image_size") =>
        /\ args = [resolution |-> "720p", ar_ratio |-> "16:9"]
               => ret = Return(<<720, 1280>>)
        /\ args = [resolution |-> "1080p", ar_ratio |-> "1:1"]
               => ret = Return(<<1440, 1440>>)

\* Whether get_image_size resolved to a pair of the tier's table.
Resolved == ret.exc = "none" /\ ret.value \in TablePairs(TierTable(args.resolution))

\* C2 (as amended): for every OpenSora tier and every label of
\* ASPECT_RATIO_MAP, get_image_size resolves to a pair of the tier's table;
\* for the PixArt tiers "256", "512", "1024" and "2048" only the label
\* "12:25" resolves, for "2880" none does, and every other combination of
\* the two fixed sets ends in the assertion's not-found failure.
C2_LabelsResolve ==
    Returned("get_image_size") /\ args.resolution \in TierNames
                               /\ args.ar_ratio \in RatioLabels =>
        /\ args.resolution \in OpenSoraTiers => Resolved
        /\ args.resolution \in PixArtTiers =>
               IF args.resolution # "2880" /\ args.ar_ratio = "12:25"
               THEN Resolved
               ELSE ret = Raise("AssertionError")

\* C2, witness: a label of the fixed set on a tier of the fixed set has
\* ended in the not-found failure.
C2_Witness ==
    /\ Returned("get_image_size")
    /\ args = [resolution |-> "1024", ar_ratio |-> "1:1"]
    /\ ret = Raise("AssertionError")

\* C2 as stated: no combination of a tier of ASPECT_RATIOS and a label of
\* ASPECT_RATIO_MAP ends in the not-found failure.
C2_Original ==
    Returned("get_image_size") /\ args.resolution \in TierNames
                               /\ args.ar_ratio \in RatioLabels => Resolved

RECURSIVE Gcd(_, _)
Gcd(a, b) == IF b = 0 THEN a ELSE Gcd(b, a % b)

RECURSIVE GcdOfSides(_, _)
GcdOfSides(ratios, n) ==
    IF n > Len(ratios) THEN 0
    ELSE Gcd(Gcd(ratios[n][2], ratios[n][3]), GcdOfSides(ratios, n + 1))

\* The quantization step of a tier's table: the largest step all its sides
\* are multiples of.
QuantStep(tier) == GcdOfSides(TierTable(tier), 1)

Abs(x) == IF x < 0 THEN -x ELSE x

Max(a, b) == IF a < b THEN b ELSE a

\* |h*w - S| is at most the area that moving one side of (h, w) by k
\* quantization steps of size q changes.
WithinSteps(h, w, S, q, k) == Abs(h * w - S) <= k * q * Max(h, w)

\* Once get_image_size was called on a tier of ASPECT_RATIOS, every pair the
\* tier's table stores, and the pair returned if one was, is within k steps
\* of the tier's budget (k2880 steps for the tier "2880").
AreaWithin(k, k2880) ==
    Returned("get_image_size") /\ args.resolution \in TierNames =>
        LET tier  == args.resolution
            steps == IF tier = "2880" THEN k2880 ELSE k
            close(h, w) == WithinSteps(h, w, TierBudget(tier), QuantStep(tier), steps)
        IN  /\ \A hw \in TablePairs(TierTable(tier)) : close(hw[1], hw[2])
            /\ ret.exc = "none" => close(ret.value[1], ret.value[2])

\* C3 (as amended): for every tier (S, table) of ASPECT_RATIOS and every
\* (h, w) stored in its table (hence every pair get_image_size returns),
\* |h*w - S| is at most the area change of moving one side by TWO
\* quantization steps of the table (2 * q * max(h, w)), except in tier
\* "2880", where it is at most that of five steps.
C3_AreaWithinTwoSteps == AreaWithin(2, 5)

\* C3, witness: get_image_size has returned a pair whose area is more than
\* one quantization step, and at most two, away from the tier's budget.
C3_Witness ==
    /\ Returned("get_image_size") /\ ret.exc = "none"
    /\ args = [resolution |-> "144p", ar_ratio |-> "3:8"]
    /\ ret.value = <<117, 312>>
    /\ ~WithinSteps(117, 312, TierBudget("144p"), QuantStep("144p"), 1)
    /\ WithinSteps(117, 312, TierBudget("144p"), QuantStep("144p"), 2)

\* C3 as stated: every pair of every table (hence every pair
\* get_image_size returns) is within one quantization step of the tier's
\* budget.
C3_Original == AreaWithin(1, 1)

\* A key, read as a number, in hundredths.
KeyHundredths(key) == DecimalOf[key][1] * (100 \div DecimalOf[key][2])

\* The two numbers a label "a:b" spells.
LabelParts ==
    "3:8" :> <<3, 8>> @@ "9:21" :> <<9, 21>> @@ "12:25" :> <<12, 25>>
    @@ "1:2" :> <<1, 2>> @@ "9:17" :> <<9, 17>> @@ "27:50" :> <<27, 50>>
    @@ "9:16" :> <<9, 16>> @@ "5:8" :> <<5, 8>> @@ "2:3" :> <<2, 3>>
    @@ "3:4" :> <<3, 4>> @@ "1:1" :> <<1, 1>> @@ "4:3" :> <<4, 3>>
    @@ "3:2" :> <<3, 2>> @@ "16:9" :> <<16, 9>> @@ "17:9" :> <<17, 9>>
    @@ "2:1" :> <<2, 1>> @@ "50:27" :> <<50, 27>>

\* key is a / b rounded to two decimals (either way at a half):
\* |100 * a / b - hundredths(key)| <= 1/2.
IsTwoDecimalRounding(key, a, b) == 2 * Abs(100 * a - KeyHundredths(key) * b) <= b

\* C4 as stated: get_closest_ratio is idempotent on every tier table: for
\* the pair (h, w) a table stores under a key k,
\* get_closest_ratio(h, w, table) returns k again.
C4_Original ==
    Returned("get_closest_ratio") =>
        \A e \in 1 .. Len(TierTable(args.tier)) :
            LET item == TierTable(args.tier)[e]
            IN  (args.height = item[2] /\ args.width = item[3]) =>
                    ret.value = item[1]

\* The distances abs(float(key) - height / width) of the call's table.
CallDistances ==
    RatioDistances(FDiv(args.height, args.width), TierTable(args.tier), 1)

\* The place of the returned key in the call's table.
ReturnedIndex ==
    CHOOSE n \in 1 .. Len(TierTable(args.tier)) :
        TierTable(args.tier)[n][1] = ret.value

\* C5: get_closest_ratio returns a key minimizing
\* |float(key) - height / width| over the table's keys, and among the keys
\* that are equally close it returns the one of lowest numeric value, on
\* every tier table as written.
C5_ClosestAndLowestOnTies ==
    Returned("get_closest_ratio") =>
        LET ds     == CallDistances
            ratios == TierTable(args.tier)
            r      == ReturnedIndex
        IN  /\ \A m \in 1 .. Len(ds) : ~BigLess(ds[m], ds[r])
            /\ \A m \in 1 .. Len(ds) :
                   ds[m] = ds[r] => ~BigLess(float(ratios[m][1]), float(ratios[r][1]))

\* C5, witness: on ASPECT_RATIO_4K, whose keys are not in ascending order,
\* two keys were equally close and the lower one was returned.
C5_Witness ==
    /\ Returned("get_closest_ratio")
    /\ args.tier = "4k"
    /\ \E m \in 1 .. Len(CallDistances) :
           /\ m # ReturnedIndex
           /\ CallDistances[m] = CallDistances[ReturnedIndex]
           /\ BigLess(float(ret.value), float(TierTable("4k")[m][1]))

\* C6: for every source and target of positive sides, resize_crop_to_fill
\* computes offsets with i >= 0, j >= 0, i + th <= sh and j + tw <= sw, so
\* the assertion holds and the result has exactly height th and width tw.
C6_CropWindowInside ==
    Returned("resize_crop_to_fill") =>
        /\ ret.i >= 0 /\ ret.j >= 0
        /\ ret.i + args.th <= ret.sh
        /\ ret.j + args.tw <= ret.sw
        /\ ret.exc = "none"
        /\ ret.value = <<args.th, args.tw>>

\* C6, witness: the excess was odd and round() rounded its half up, and the
\* window still ended inside the scaled image.
C6_Witness ==
    /\ Returned("resize_crop_to_fill")
    /\ (ret.sw - args.tw) % 2 = 1
    /\ 2 * ret.j > ret.sw - args.tw
    /\ ret.j + args.tw <= ret.sw
    /\ ret.exc = "none"

\* The source of 100 rows by 200 columns and the target (50, 50).
ExampleCall == [w |-> 200, h |-> 100, th |-> 50, tw |-> 50]

\* C7 (as amended): resize_crop_to_fill of a 100-row by 200-column source
\* to (50, 50) scales to 50 rows by 100 columns and crops the WIDTH axis
\* (row offset i = 0, column offset j = 25), returns exactly shape (50, 50)
\* and its window stays inside the scaled image.
C7_ExampleCropsWidth ==
    Returned("resize_crop_to_fill") /\ args = ExampleCall =>
        /\ ret.sh = 50 /\ ret.sw = 100
        /\ ret.i = 0 /\ ret.j = 25
        /\ ret.exc = "none" /\ ret.value = <<50, 50>>
        /\ ret.i + args.th <= ret.sh /\ ret.j + args.tw <= ret.sw

\* C7, witness: the example call has returned, with columns cropped.
C7_Witness ==
    /\ Returned("resize_crop_to_fill") /\ args = ExampleCall
    /\ ret.j > 0 /\ ret.sw > args.tw /\ ret.value = <<50, 50>>

\* C7 as stated: the example call crops the height axis (column offset
\* j = 0, the rows lose pixels), returns shape (50, 50) and its window stays
\* inside the scaled image.
C7_Original ==
    Returned("resize_crop_to_fill") /\ args = ExampleCall =>
        /\ ret.j = 0 /\ ret.sw = args.tw /\ ret.sh > args.th
        /\ ret.exc = "none" /\ ret.value = <<50, 50>>
        /\ ret.i + args.th <= ret.sh /\ ret.j + args.tw <= ret.sw

\* C8: when the source already has the target shape (h = th, w = tw),
\* resize_crop_to_fill scales to the source's own size and both offsets are
\* 0, so the output window is the whole source.
C8_SameShapeIsWholeSource ==
    Returned("resize_crop_to_fill") /\ args.h = args.th /\ args.w = args.tw =>
        /\ ret.sh = args.h /\ ret.sw = args.w
        /\ ret.i = 0 /\ ret.j = 0
        /\ ret.exc = "none" /\ ret.value = <<args.h, args.w>>

\* C8, witness: a non-square source of the target's shape has come back
\* whole.
C8_Witness ==
    /\ Returned("resize_crop_to_fill")
    /\ args = [w |-> 3, h |-> 5, th |-> 5, tw |-> 3]
    /\ ret.i = 0 /\ ret.j = 0 /\ ret.value = <<5, 3>>

\* C9 as stated: for every label "a:b" of ASPECT_RATIO_MAP the mapped key,
\* read as a number, is a / b rounded to two decimals: the key
\* get_image_size looked up for its label is that rounding.
C9_Original ==
    Returned("get_image_size") /\ args.ar_ratio \in RatioLabels =>
        IsTwoDecimalRounding(DictItem(ASPECT_RATIO_MAP, args.ar_ratio)[2],
                             LabelParts[args.ar_ratio][1],
                             LabelParts[args.ar_ratio][2])

\* A centre-crop call with a target that is not square.
NonSquareTransform ==
    /\ pc = "done" /\ op \in {"get_transforms_video", "get_transforms_image"}
    /\ args.name = "center" /\ args.image_size[1] # args.image_size[2]

NonSquareCenterCrop ==
    /\ Returned("UCFCenterCropVideo") /\ args.size[1] # args.size[2]

\* C10 (as amended): get_transforms_video and get_transforms_image with
\* name "center" reject every non-square target with the assertion's
\* configuration error.  UCFCenterCropVideo constructed with a non-square
\* (height, width) and applied to a clip raises no configuration error: it
\* yields a clip of exactly (height, width) when the scaled clip is at least
\* that large, and fails with a size error otherwise.
C10_CenterPolicyOnNonSquare ==
    /\ NonSquareTransform => ret = Raise("AssertionError")
    /\ NonSquareCenterCrop =>
           LET scaled == resize_scale(args.H, args.W, args.size)
           IN  IF scaled[1] >= args.size[1] /\ scaled[2] >= args.size[2]
               THEN ret = Return(args.size)
               ELSE ret.exc \in {"ValueError", "RuntimeError"}

\* C10, witness: UCFCenterCropVideo((2, 4)) applied to a clip of 4 x 8 has
\* yielded a clip of 2 x 4.
C10_Witness ==
    /\ NonSquareCenterCrop
    /\ args = [size |-> <<2, 4>>, H |-> 4, W |-> 8]
    /\ ret = Return(<<2, 4>>)

\* C10 as stated: with a non-square target, selecting the centre policy
\* (either get_transforms function with "center", or UCFCenterCropVideo
\* constructed and applied) ends in an error and yields no clip or image.
C10_Original ==
    (NonSquareTransform \/ NonSquareCenterCrop) => ret.exc # "none"

\* The token of a get_num_frames call, and whether NUM_FRAMES_MAP holds it.
Token == args.num_frames

InTable == \E n \in 1 .. Len(NUM_FRAMES_MAP) : NUM_FRAMES_MAP[n][1] = Token

\* A plain decimal integer string: one or more digits and nothing else.
PlainDecimal(t) == t # <<>> /\ \A k \in 1 .. Len(t) : t[k] \in DOMAIN DigitValue

RECURSIVE DecimalValue(_)
\* The integer a sequence of digits spells.
DecimalValue(t) ==
    IF t = <<>> THEN 0
    ELSE 10 * DecimalValue(SubSeq(t, 1, Len(t) - 1)) + DigitValue[t[Len(t)]]

\* t is digits groups joined by single underscores.
UnderscoredDecimal(t) ==
    /\ t # <<>>
    /\ \A k \in 1 .. Len(t) :
           \/ t[k] \in DOMAIN DigitValue
           \/ /\ t[k] = "_" /\ 1 < k /\ k < Len(t)
              /\ t[k - 1] \in DOMAIN DigitValue /\ t[k + 1] \in DOMAIN DigitValue

\* The ways to read t as blanks, an optional sign, an underscored decimal
\* and blanks: the (sign, decimal) pairs.
DecoratedReadings(t) ==
    {<<sg, SubSeq(t, i + Len(sg) + 1, j - 1)>> :
        <<i, j, sg>> \in
            {x \in (0 .. Len(t)) \X (1 .. (Len(t) + 1)) \X {<<>>, <<"+">>, <<"-">>} :
                /\ x[1] + Len(x[3]) < x[2]
                /\ \A k \in 1 .. x[1] : t[k] = " "
                /\ \A k \in x[2] .. Len(t) : t[k] = " "
                /\ SubSeq(t, x[1] + 1, x[1] + Len(x[3])) = x[3]
                /\ UnderscoredDecimal(SubSeq(t, x[1] + Len(x[3]) + 1, x[2] - 1))}}

IsDigitChar(c) == c \in DOMAIN DigitValue

\* The integer a reading spells.
ReadingValue(r) ==
    IF r[1] = <<"-">> THEN -DecimalValue(SelectSeq(r[2], IsDigitChar))
    ELSE DecimalValue(SelectSeq(r[2], IsDigitChar))

\* C11 (as amended): get_num_frames resolves a token in three ordered
\* steps: a token present in NUM_FRAMES_MAP yields its table value ("8s"
\* gives 204); any other token that int() reads yields that integer: a plain
\* decimal integer string ("42" gives 42), and also one with surrounding
\* blanks, a leading sign or single underscores between digits (" 42" gives
\* 42, "-4" gives -4, "4_2" gives 42); any other token ("bogus") fails with
\* the parse error and yields no frame count.
C11_FrameCountSteps ==
    Returned("get_num_frames") =>
        /\ Token = <<"8", "s">> => ret = Return(204)
        /\ Token = <<"4", "2">> => ret = Return(42)
        /\ Token = <<"b", "o", "g", "u", "s">> => ret = Raise("ValueError")
        /\ InTable => \E n \in 1 .. Len(NUM_FRAMES_MAP) :
                          /\ NUM_FRAMES_MAP[n][1] = Token
                          /\ ret = Return(NUM_FRAMES_MAP[n][2])
        /\ ~InTable /\ PlainDecimal(Token) => ret = Return(DecimalValue(Token))
        /\ ~InTable /\ DecoratedReadings(Token) # {} =>
               \A r \in DecoratedReadings(Token) : ret = Return(ReadingValue(r))
        /\ ~InTable /\ DecoratedReadings(Token) = {} => ret = Raise("ValueError")

\* C11, witness: a token that is neither in the table nor a plain decimal
\* integer string has yielded an integer.
C11_Witness ==
    /\ Returned("get_num_frames")
    /\ Token = <<" ", "4", "2">>
    /\ ~InTable /\ ~PlainDecimal(Token)
    /\ ret = Return(42)

\* C11 as stated: a token in NUM_FRAMES_MAP yields its table value, any
\* other token that is a plain decimal integer string yields that integer,
\* and any other token fails with a parse error and yields no frame count.
C11_Original ==
    Returned("get_num_frames") =>
        /\ InTable => ret = Return(DictItem(NUM_FRAMES_MAP, Token)[2])
        /\ ~InTable /\ PlainDecimal(Token) => ret = Return(DecimalValue(Token))
        /\ ~InTable /\ ~PlainDecimal(Token) => ret.exc = "ValueError"

\* n is p / q rounded to an integer (either way at a half):
\* |n - p / q| <= 1/2.
NearestInteger(n, p, q) == 2 * Abs(n * q - p) <= q

\* n is round(e / 2) for an integer e >= 0: e / 2 when e is even, the even
\* one of the two neighbours of e / 2 when e is odd.
RoundOfHalf(n, e) ==
    IF e % 2 = 0 THEN 2 * n = e
    ELSE (2 * n = e - 1 \/ 2 * n = e + 1) /\ n % 2 = 0

\* C12: resize_crop_to_fill removes pixels from at most one axis: when
\* th / h > tw / w the scaled height is th, the scaled width is w * th / h
\* rounded and at least tw, and only the width is cropped (i = 0,
\* j = round((sw - tw) / 2)); otherwise the scaled width is tw, the scaled
\* height is h * tw / w rounded and at least th, and only the height is
\* cropped (j = 0, i = round((sh - th) / 2)); i and j are never both
\* non-zero.
C12_OneAxisCropped ==
    Returned("resize_crop_to_fill") =>
        /\ IF args.th * args.w > args.tw * args.h
           THEN /\ ret.sh = args.th
                /\ NearestInteger(ret.sw, args.w * args.th, args.h)
                /\ ret.sw >= args.tw
                /\ ret.i = 0
                /\ RoundOfHalf(ret.j, ret.sw - args.tw)
           ELSE /\ ret.sw = args.tw
                /\ NearestInteger(ret.sh, args.h * args.tw, args.w)
                /\ ret.sh >= args.th
                /\ ret.j = 0
                /\ RoundOfHalf(ret.i, ret.sh - args.th)
        /\ ~(ret.i # 0 /\ ret.j # 0)

\* C12, witness: a call with th / h <= tw / w has scaled the height past
\* the target by an odd number of rows and cropped rows only.
C12_Witness ==
    /\ Returned("resize_crop_to_fill")
    /\ args.th * args.w <= args.tw * args.h
    /\ (ret.sh - args.th) % 2 = 1 /\ ret.sh - args.th > 1
    /\ ret.i > 0 /\ ret.j = 0 /\ ret.sw = args.tw

\* A pass of the loop of center_crop_arr: it ran on a short edge of at least
\* 2 * image_size and halved both sides (integer halving).
IsHalvingPass ==
    /\ MinSide(ret.size) >= 2 * args.image_size
    /\ ret'.size[1] = ret.size[1] \div 2
    /\ ret'.size[2] = ret.size[2] \div 2
    /\ 2 * ret'.size[1] \in {ret.size[1], ret.size[1] - 1}
    /\ 2 * ret'.size[2] \in {ret.size[2], ret.size[2] - 1}

\* What center_crop_arr has done when it returns: the loop stopped below
\* 2 * image_size, the resize made the short edge image_size and the long
\* edge no shorter, the offsets are not negative and the result is
\* image_size by image_size.
ArrPostcondition ==
    /\ MinSide(ret.size) < 2 * args.image_size
    /\ ret.exc = "none"
    /\ MinSide(ret.resized) = args.image_size
    /\ ret.resized[1] >= args.image_size /\ ret.resized[2] >= args.image_size
    /\ ret.crop_y >= 0 /\ ret.crop_x >= 0
    /\ ret.value = <<args.image_size, args.image_size>>

\* C13: center_crop_arr on an image of positive width and height with
\* image_size >= 1 terminates; every pass of its loop runs while
\* min(width, height) >= 2 * image_size and halves both sides; it stops with
\* min(width, height) < 2 * image_size, the resize makes the short edge
\* image_size and the long edge at least image_size, both crop offsets are
\* >= 0 and the result is image_size by image_size.
C13_CenterCropArrTerminates ==
    /\ <>(pc = "done")
    /\ [][pc = "loop" /\ pc' = "loop" => IsHalvingPass]_vars
    /\ [](Returned("center_crop_arr") => ArrPostcondition)

\* C13, witness: center_crop_arr has returned from an image, not square and
\* of odd sides, that the loop had to halve more than once.
C13_Witness ==
    /\ Returned("center_crop_arr")
    /\ args.w # args.h /\ args.w % 2 = 1 /\ args.h % 2 = 1
    /\ MinSide(<<args.w, args.h>>) >= 4 * args.image_size
    /\ MinSide(ret.size) < 2 * args.image_size
    /\ ret.value = <<args.image_size, args.image_size>>

====
